---- MODULE Spec2Model ----
(***************************************************************************)
(* Model of DeepAnalysisClient (internal/client/deepanalysis.go): the      *)
(* Handle tool-call loop, the conversation store it shares between         *)
(* concurrent invocations, and the remote Responses service and the file   *)
(* provider it calls.                                                       *)
(*                                                                         *)
(* Each goroutine running Handle is a process of Procs.  A step of a       *)
(* process is the code between two points where another goroutine can      *)
(* observe or change shared state: a store access under c.mu, a remote     *)
(* call, a file operation.                                                  *)
(***************************************************************************)
EXTENDS Integers, Sequences, FiniteSets, TLC

\* deepanalysis.go:18
maxIterations == 10

\* Bounds of the exploration.
MaxRequests     == 3   \* Handle invocations started in one behaviour
MaxTurns        == 12  \* remote turns the service completes in one behaviour
MaxConcRequests == 2   \* the same two, in the runs with concurrent invocations
MaxConcTurns    == 4
MaxToolRequests == 1   \* the same two, in the runs over all outputs
MaxToolTurns    == 2
MaxItems        == 2   \* output items of one response
MaxCancelRequests == 2 \* the same two, in the runs with cancellation
MaxCancelTurns  == 3
MaxIORequests   == 1   \* the same two, in the runs over prompts and texts
MaxIOTurns      == 2
MaxParts        == 2   \* content parts of one message
MaxLiveRequests == 2   \* invocations in the runs that are to terminate
MaxLockRequests == 2   \* the same two, in the runs with the steps of c.mu
MaxLockTurns    == 2
MaxArgRequests  == 3   \* the same two, in the runs over request arguments
MaxArgTurns     == 2

Procs == {"p1", "p2"}

(***************************************************************************)
(* Request arguments.  An argument of the tool call is absent or carries   *)
(* a value of some JSON type.                                               *)
(***************************************************************************)
Absent   == [kind |-> "absent", str |-> "", bool |-> FALSE]
Str(s)   == [kind |-> "string", str |-> s, bool |-> FALSE]
Bool(b)  == [kind |-> "bool", str |-> "", bool |-> b]

\* request.RequireString(key): the value, or an error when the argument is
\* absent or is not a string.  An empty string is a string.
RequireString(arg) ==
    IF arg.kind = "string" THEN [val |-> arg.str, err |-> ""]
    ELSE IF arg.kind = "absent"
         THEN [val |-> "", err |-> "required argument \"task\" not found"]
         ELSE [val |-> "", err |-> "argument \"task\" is not a string"]

\* request.GetString(key, default)
GetString(arg, def) == IF arg.kind = "string" THEN arg.str ELSE def

\* request.GetBool(key, default)
GetBool(arg, def) == IF arg.kind = "bool" THEN arg.bool ELSE def

\* Variant: no default identifier.
ConversationIDOfRequest(request) == GetString(request.conversation_id, "")

\* deepanalysis.go:62-67
ConversationIDOf(request) ==
    LET conversationID == GetString(request.conversation_id, "")
    IN  IF conversationID = "" THEN "default" ELSE conversationID

\* The keys the store can get in the model.
ConvIDs == {"default", "a"}

(***************************************************************************)
(* Turn identifiers.  The program treats response.ID as an opaque string;  *)
(* "" (NoID here) is the zero value of an unset string.  The model writes  *)
(* an identifier as the serial number of the turn together with the        *)
(* conversation identifier of the invocation that was given it, which the  *)
(* program never reads.                                                     *)
(***************************************************************************)
NoID == [n |-> 0, conv |-> ""]
TurnID(n, c) == [n |-> n, conv |-> c]

(***************************************************************************)
(* The conversation store: c.conv, a Go map from conversation identifier   *)
(* to response identifier.  A map value here is a function whose domain    *)
(* is the set of keys present.                                              *)
(***************************************************************************)
EmptyStore == [x \in {} |-> NoID]

\* Variant: the lookup finds nothing.
getRespIDFindsNothing(m, conversationID) == NoID

\* Variant: an identifier without a pointer gets the pointer of "default".
getRespIDOrDefault(m, conversationID) ==
    IF conversationID \in DOMAIN m THEN m[conversationID]
    ELSE IF "default" \in DOMAIN m THEN m["default"]
    ELSE NoID

\* deepanalysis.go:211-215; a missing key reads as the zero value
getRespID(m, conversationID) ==
    IF conversationID \in DOMAIN m THEN m[conversationID] ELSE NoID

\* Variant: every pointer is stored under the default identifier.
setRespIDUnderDefault(m, conversationID, responseID) ==
    [x \in DOMAIN m \cup {"default"} |->
        IF x = "default" THEN responseID ELSE m[x]]

\* Variant: a pointer already stored is not overwritten.
setRespIDKeepsFirst(m, conversationID, responseID) ==
    [x \in DOMAIN m \cup {conversationID} |->
        IF x \in DOMAIN m THEN m[x] ELSE responseID]

\* Variant: the store keeps the pointer of one conversation only.
setRespIDAlone(m, conversationID, responseID) ==
    [x \in {conversationID} |-> responseID]

\* deepanalysis.go:218-222
setRespID(m, conversationID, responseID) ==
    [x \in DOMAIN m \cup {conversationID} |->
        IF x = conversationID THEN responseID ELSE m[x]]

\* Variant: clear leaves the entry in place.
clearRespIDKeepsEntry(m, conversationID) == m

\* Variant: the whole store is cleared.
clearRespIDOfAll(m, conversationID) == EmptyStore

\* deepanalysis.go:225-229; delete of a missing key is a no-op
clearRespID(m, conversationID) ==
    [x \in DOMAIN m \ {conversationID} |-> m[x]]

(***************************************************************************)
(* Output items of a response (responses.Response.Output).  An item has a  *)
(* Type; a "function_call" item carries CallID, Name and Arguments, a      *)
(* "message" item carries Content, a sequence of parts with Type and Text. *)
(***************************************************************************)
FunctionCall(callID, name, arguments) ==
    [Type |-> "function_call", CallID |-> callID, Name |-> name,
     Arguments |-> arguments, Content |-> <<>>]
Message(content) ==
    [Type |-> "message", CallID |-> "", Name |-> "", Arguments |-> "",
     Content |-> content]
Reasoning ==
    [Type |-> "reasoning", CallID |-> "", Name |-> "", Arguments |-> "",
     Content |-> <<>>]
OutputText(text) == [Type |-> "output_text", Text |-> text]
Refusal(text)    == [Type |-> "refusal", Text |-> text]

\* deepanalysis.go:333-337
ToolCall(id, name, arguments) ==
    [ID |-> id, Name |-> name, Arguments |-> arguments]

\* deepanalysis.go:340-357: the function_call items, in order
RECURSIVE extractToolCalls(_)
extractToolCalls(output) ==
    IF output = <<>> THEN <<>>
    ELSE LET item == Head(output)
         IN  (IF item.Type = "function_call"
              THEN <<ToolCall(item.CallID, item.Name, item.Arguments)>>
              ELSE <<>>) \o extractToolCalls(Tail(output))

\* deepanalysis.go:364-376: the Text of every "text" or "output_text" part
\* of every "message" item, in order
RECURSIVE TextOfContent(_)
TextOfContent(content) ==
    IF content = <<>> THEN <<>>
    ELSE LET contentItem == Head(content)
         IN  (IF contentItem.Type = "text" \/ contentItem.Type = "output_text"
              THEN <<contentItem.Text>>
              ELSE <<>>) \o TextOfContent(Tail(content))

RECURSIVE TextParts(_)
TextParts(output) ==
    IF output = <<>> THEN <<>>
    ELSE LET item == Head(output)
         IN  (IF item.Type = "message" THEN TextOfContent(item.Content)
              ELSE <<>>) \o TextParts(Tail(output))

\* deepanalysis.go:378-384: a separator is added only when the text built
\* so far is not empty
RECURSIVE JoinParts(_, _)
JoinParts(result, textParts) ==
    IF textParts = <<>> THEN result
    ELSE JoinParts((IF result # "" THEN result \o "\n" ELSE result)
                       \o Head(textParts),
                   Tail(textParts))

\* deepanalysis.go:360-388
extractTextContent(output) == JoinParts("", TextParts(output))

(***************************************************************************)
(* The file provider (client.FileOps, implemented by fileops.Handler) and  *)
(* the argument payloads.  The file system of the model holds one source   *)
(* file; the payloads are the JSON documents the model of the remote       *)
(* service sends.                                                           *)
(***************************************************************************)
Ok(val)   == [val |-> val, err |-> ""]
Fail(err) == [val |-> "", err |-> err]

ExistingFiles == {"main.go"}

\* ctx.Err() of a context that was cancelled; "" stands for nil
ContextCanceled == "context canceled"

\* fileops.Handler.ReadFile; ctxErr is ctx.Err() at the time of the call
ReadFile(ctxErr, path) ==
    IF ctxErr # "" THEN Fail(ctxErr)
    ELSE IF path \in ExistingFiles THEN Ok("package main")
    ELSE Fail("failed to stat file: " \o path)

\* fileops.Handler.GrepFiles: an invalid regular expression is an error,
\* no match is a result
GrepFiles(ctxErr, pattern, path, ignoreCase) ==
    IF ctxErr # "" THEN Fail(ctxErr)
    ELSE IF pattern = "(" THEN Fail("invalid regex pattern")
    ELSE IF path \in ExistingFiles THEN Ok("main.go:1:package main")
    ELSE Ok("No files matched the pattern")

\* fileops.Handler.GlobFiles: no match is a result
GlobFiles(ctxErr, pattern) ==
    IF ctxErr # "" THEN Fail(ctxErr)
    ELSE IF pattern \in ExistingFiles THEN Ok(pattern)
    ELSE Ok("No files matched the pattern")

\* json.Unmarshal of an argument payload into the args struct of
\* executeFunction: fields missing from the document keep their zero value
ArgsReadMain == "{\"path\":\"main.go\"}"
ArgsReadGone == "{\"path\":\"gone.go\"}"
ArgsGrepBad  == "{\"pattern\":\"(\",\"path\":\"main.go\",\"ignore_case\":false}"
ArgsGlob     == "{\"pattern\":\"main.go\"}"
ArgsBroken   == "{\"path\":"
ArgsEmpty    == "{}"

Unmarshal(argsJSON) ==
    LET zero == [err |-> "", Path |-> "", Pattern |-> "", IgnoreCase |-> FALSE]
    IN  CASE argsJSON = ArgsReadMain -> [zero EXCEPT !.Path = "main.go"]
          [] argsJSON = ArgsReadGone -> [zero EXCEPT !.Path = "gone.go"]
          [] argsJSON = ArgsGrepBad  -> [zero EXCEPT !.Pattern = "(",
                                                     !.Path = "main.go"]
          [] argsJSON = ArgsGlob     -> [zero EXCEPT !.Pattern = "main.go"]
          [] argsJSON = ArgsEmpty    -> zero
          [] OTHER -> [zero EXCEPT !.err = "unexpected end of JSON input"]

\* deepanalysis.go:296-330
executeFunction(ctxErr, name, argsJSON) ==
    LET args == Unmarshal(argsJSON)
    IN  CASE name = "read_file" ->
               IF args.err # "" THEN Fail("invalid arguments: " \o args.err)
               ELSE ReadFile(ctxErr, args.Path)
          [] name = "grep_files" ->
               IF args.err # "" THEN Fail("invalid arguments: " \o args.err)
               ELSE GrepFiles(ctxErr, args.Pattern, args.Path, args.IgnoreCase)
          [] name = "glob_files" ->
               IF args.err # "" THEN Fail("invalid arguments: " \o args.err)
               ELSE GlobFiles(ctxErr, args.Pattern)
          [] OTHER -> Fail("unknown function: " \o name)

\* deepanalysis.go:296-330: executeFunction calls an operation of the
\* provider (the name is known and the arguments parse)
CallsProvider(name, argsJSON) ==
    /\ name \in {"read_file", "grep_files", "glob_files"}
    /\ Unmarshal(argsJSON).err = ""

\* Variant: the output of a failed call loses the call's identifier.
ToolOutputUnkeyedOnError(ctxErr, toolCall) ==
    LET r == executeFunction(ctxErr, toolCall.Name, toolCall.Arguments)
    IN  [CallID |-> IF r.err # "" THEN "" ELSE toolCall.ID,
         Output |-> IF r.err # "" THEN "Error: " \o r.err ELSE r.val]

\* deepanalysis.go:171-179: the output paired with the call's identifier;
\* an error becomes the text "Error: <reason>"
ToolOutput(ctxErr, toolCall) ==
    LET r == executeFunction(ctxErr, toolCall.Name, toolCall.Arguments)
    IN  [CallID |-> toolCall.ID,
         Output |-> IF r.err # "" THEN "Error: " \o r.err ELSE r.val]

(***************************************************************************)
(* What is submitted to the remote service and what Handle returns.        *)
(***************************************************************************)
\* responses.ResponseInputItemParamOfMessage(prompt, user)
InputMessage(prompt) ==
    [Type |-> "message", CallID |-> "", Text |-> prompt]
\* responses.ResponseInputItemParamOfFunctionCallOutput(callID, output)
FunctionCallOutput(callID, output) ==
    [Type |-> "function_call_output", CallID |-> callID, Text |-> output]

\* responses.ResponseNewParams; Instructions and Tools say whether the
\* system prompt and the tool declarations are set
NoParams ==
    [Instructions |-> FALSE, Tools |-> FALSE, PreviousResponseID |-> NoID,
     Input |-> <<>>]
\* deepanalysis.go:116-134
InitialParams(prompt, prevResponseID) ==
    [Instructions |-> TRUE, Tools |-> TRUE,
     PreviousResponseID |-> IF prevResponseID # NoID THEN prevResponseID
                            ELSE NoID,
     Input |-> <<InputMessage(prompt)>>]
\* deepanalysis.go:184-191
FollowUpParams(responseID, toolOutputs) ==
    [Instructions |-> FALSE, Tools |-> TRUE,
     PreviousResponseID |-> responseID, Input |-> toolOutputs]

NoResponse == [ID |-> NoID, Output |-> <<>>]

\* The pair (*mcp.CallToolResult, error) Handle returns; err is "" for nil.
NoResult == [returned |-> FALSE, IsError |-> FALSE, Text |-> "", err |-> ""]
\* mcp.NewToolResultError(text), nil
ResultError(text) ==
    [returned |-> TRUE, IsError |-> TRUE, Text |-> text, err |-> ""]
\* mcp.NewToolResultText(text), nil
ResultText(text) ==
    [returned |-> TRUE, IsError |-> FALSE, Text |-> text, err |-> ""]

RemoteErrorText    == "OpenAI API error: "
EmptyResponseText  == "No text content in response"
MaxIterationsText  == "Max function call iterations reached"

\* The errors c.client.Responses.New returns in the model.
RemoteErrors == {"500 Internal Server Error"}

(***************************************************************************)
(* State.                                                                   *)
(***************************************************************************)
VARIABLES
    conv,            \* c.conv
    nextID,          \* serial number of the next turn the service completes
    nreq,            \* Handle invocations started so far
    lastTurn,        \* per conversation identifier, the identifier of the
                     \* turn the service completed last for an invocation on
                     \* it (history; the program does not hold it)
    pc,              \* per process: where it is in Handle, "idle" outside
    request,         \* the mcp.CallToolRequest of its invocation
    prevResponseID,  \* Handle's locals
    params,
    response,
    i,
    toolOutputs,
    result,          \* what its last invocation returned
    ncalls,          \* remote calls its invocation has issued (history)
    solo,            \* no other invocation on the same conversation
                     \* identifier has run since its invocation began
                     \* (history)
    raced,           \* per conversation identifier: two invocations on it
                     \* have run at the same time (history)
    ctxErr,          \* per process: ctx.Err() of the context of its
                     \* invocation, "" while the context is live
    late,            \* per process: where its invocation was when its
                     \* context was cancelled, and whether it has since
                     \* called the provider (tool) and begun a remote call
                     \* (call) (history)
    reads,           \* per process: the paths its invocation has read as
                     \* attached files, in the order of the reads (history)
    mu               \* c.mu: the process that holds it for writing ("" for
                     \* none) and the processes that hold it for reading

vars == <<conv, nextID, nreq, lastTurn, pc, request, prevResponseID, params,
          response, i, toolOutputs, result, ncalls, solo, raced, ctxErr,
          late, reads, mu>>

locals == <<prevResponseID, params, response, i, toolOutputs>>

conversationID(p) == ConversationIDOf(request[p])
\* deepanalysis.go:61
continueConversation(p) == GetBool(request[p].continue, TRUE)

\* deepanalysis.go:391-400
RECURSIVE joinStrings(_, _)
joinStrings(parts, sep) ==
    IF parts = <<>> THEN ""
    ELSE IF Len(parts) = 1 THEN parts[1]
    ELSE joinStrings(SubSeq(parts, 1, Len(parts) - 1), sep)
             \o sep \o parts[Len(parts)]

\* The code fence of deepanalysis.go:82, three backquotes in the code; a
\* string of the model cannot hold a backquote
Fence == "~~~"

\* deepanalysis.go:76-83: one attached file is read and its part is built
ReadAttachedFile(ctx, filePath) ==
    LET r == ReadFile(ctx, filePath)
    IN  IF r.err # ""
        THEN "File: " \o filePath \o "\nError: " \o r.err \o "\n"
        ELSE "File: " \o filePath \o "\n" \o Fence \o "\n" \o r.val
                 \o "\n" \o Fence \o "\n"

\* Variant: the first file that cannot be read ends the loop.
RECURSIVE ReadAttachedFilesUntilError(_, _, _)
ReadAttachedFilesUntilError(ctx, files, acc) ==
    IF files = <<>> \/ ReadFile(ctx, Head(files)).err # "" THEN acc
    ELSE ReadAttachedFilesUntilError(ctx, Tail(files),
             [fileParts |-> Append(acc.fileParts,
                                   ReadAttachedFile(ctx, Head(files))),
              reads |-> Append(acc.reads, Head(files))])

\* deepanalysis.go:74-84: the loop over the attached files; acc holds the
\* parts built and the paths read so far
RECURSIVE ReadAttachedFiles(_, _, _)
ReadAttachedFiles(ctx, files, acc) ==
    IF files = <<>> THEN acc
    ELSE ReadAttachedFiles(ctx, Tail(files),
             [fileParts |-> Append(acc.fileParts,
                                   ReadAttachedFile(ctx, Head(files))),
              reads |-> Append(acc.reads, Head(files))])

NoFilesRead == [fileParts |-> <<>>, reads |-> <<>>]

\* deepanalysis.go:70-86
filesContent(ctx, files) ==
    IF Len(files) > 0
    THEN "\n" \o "Attached Files:\n"
             \o joinStrings(ReadAttachedFiles(ctx, files, NoFilesRead).fileParts,
                            "\n")
             \o "\n"
    ELSE ""

\* deepanalysis.go:87-97
BuildPrompt(task, context, attached) ==
    IF context # "" /\ attached # ""
    THEN "Context:\n" \o context \o attached \o "\nTask:\n" \o task
    ELSE IF context # ""
    THEN "Context:\n" \o context \o "\n\nTask:\n" \o task
    ELSE IF attached # ""
    THEN attached \o "\nTask:\n" \o task
    ELSE task

\* deepanalysis.go:53-97: the prompt of the request; the attached files are
\* read before anything else is done for the request, with a live context
prompt(p) ==
    BuildPrompt(RequireString(request[p].task).val,
                GetString(request[p].context, ""),
                filesContent("", request[p].files))

NoRequest ==
    [task |-> Absent, context |-> Absent, files |-> <<>>,
     continue |-> Absent, conversation_id |-> Absent]

\* sync.RWMutex, deepanalysis.go:33: nobody holds it
Unlocked == [w |-> "", r |-> {}]

\* p holds c.mu, for reading or for writing.
Holds(p) == mu.w = p \/ p \in mu.r

\* c.mu.RLock() of p returns: no writer holds c.mu.
CanRLock(p) == mu.w = ""

\* c.mu.Lock() of p returns: nobody holds c.mu.
CanLock(p) == mu.w = "" /\ mu.r = {}

\* Variant: only the write lock is given back.
UnlockWriter(m, p) == [m EXCEPT !.w = IF m.w = p THEN "" ELSE m.w]

\* deepanalysis.go:212, 219, 226: the deferred RUnlock or Unlock of p
Unlock(m, p) ==
    [w |-> IF m.w = p THEN "" ELSE m.w, r |-> m.r \ {p}]

\* Nothing was done with a cancelled context.
NotLate == [at |-> "", tool |-> FALSE, call |-> FALSE]

Init ==
    /\ conv = EmptyStore
    /\ nextID = 1
    /\ nreq = 0
    /\ lastTurn = [c \in ConvIDs |-> NoID]
    /\ pc = [p \in Procs |-> "idle"]
    /\ request = [p \in Procs |-> NoRequest]
    /\ prevResponseID = [p \in Procs |-> NoID]
    /\ params = [p \in Procs |-> NoParams]
    /\ response = [p \in Procs |-> NoResponse]
    /\ i = [p \in Procs |-> 0]
    /\ toolOutputs = [p \in Procs |-> <<>>]
    /\ result = [p \in Procs |-> NoResult]
    /\ ncalls = [p \in Procs |-> 0]
    /\ solo = [p \in Procs |-> TRUE]
    /\ raced = [c \in ConvIDs |-> FALSE]
    /\ ctxErr = [p \in Procs |-> ""]
    /\ late = [p \in Procs |-> NotLate]
    /\ reads = [p \in Procs |-> <<>>]
    /\ mu = Unlocked

\* Handle returns res.
Return(p, res) ==
    /\ pc' = [pc EXCEPT ![p] = "idle"]
    /\ result' = [result EXCEPT ![p] = res]

(***************************************************************************)
(* Handle, deepanalysis.go:52-208.                                          *)
(***************************************************************************)
\* Variant: the attached files are read before the task is looked at.
StartReadsFiles(p, req, requests) ==
    /\ pc[p] = "idle"
    /\ nreq < requests
    /\ nreq' = nreq + 1
    /\ request' = [request EXCEPT ![p] = req]
    /\ prevResponseID' = [prevResponseID EXCEPT ![p] = NoID]
    /\ params' = [params EXCEPT ![p] = NoParams]
    /\ response' = [response EXCEPT ![p] = NoResponse]
    /\ i' = [i EXCEPT ![p] = 0]
    /\ toolOutputs' = [toolOutputs EXCEPT ![p] = <<>>]
    /\ ncalls' = [ncalls EXCEPT ![p] = 0]
    /\ ctxErr' = [ctxErr EXCEPT ![p] = ""]
    /\ late' = [late EXCEPT ![p] = NotLate]
    /\ LET task == RequireString(req.task)
           \* the invocations on the same conversation identifier: those
           \* that have run and those that are running
           same == {q \in Procs \ {p} :
                      /\ pc[q] # "idle" \/ result[q].returned
                      /\ RequireString(request[q].task).err = ""
                      /\ conversationID(q) = ConversationIDOf(req)}
           running == {q \in same : pc[q] # "idle"}
       IN  IF task.err # ""
           THEN /\ Return(p, ResultError(task.err))
                /\ reads' = [reads EXCEPT ![p] =
                       ReadAttachedFiles("", req.files, NoFilesRead).reads]
                /\ UNCHANGED <<solo, raced>>
           ELSE /\ pc' = [pc EXCEPT ![p] = "continuation"]
                /\ reads' = [reads EXCEPT ![p] =
                       ReadAttachedFiles("", req.files, NoFilesRead).reads]
                /\ result' = [result EXCEPT ![p] = NoResult]
                /\ solo' = [q \in Procs |->
                              IF q = p THEN running = {}
                              ELSE IF q \in same THEN FALSE ELSE solo[q]]
                /\ raced' = [raced EXCEPT ![ConversationIDOf(req)] =
                               @ \/ running # {}]
    /\ UNCHANGED <<conv, nextID, lastTurn, mu>>

\* Lines 52-99: a request arrives; the task is required.
Start(p, req, requests) ==
    /\ pc[p] = "idle"
    /\ nreq < requests
    /\ nreq' = nreq + 1
    /\ request' = [request EXCEPT ![p] = req]
    /\ prevResponseID' = [prevResponseID EXCEPT ![p] = NoID]
    /\ params' = [params EXCEPT ![p] = NoParams]
    /\ response' = [response EXCEPT ![p] = NoResponse]
    /\ i' = [i EXCEPT ![p] = 0]
    /\ toolOutputs' = [toolOutputs EXCEPT ![p] = <<>>]
    /\ ncalls' = [ncalls EXCEPT ![p] = 0]
    /\ ctxErr' = [ctxErr EXCEPT ![p] = ""]
    /\ late' = [late EXCEPT ![p] = NotLate]
    /\ LET task == RequireString(req.task)
           \* the invocations on the same conversation identifier: those
           \* that have run and those that are running
           same == {q \in Procs \ {p} :
                      /\ pc[q] # "idle" \/ result[q].returned
                      /\ RequireString(request[q].task).err = ""
                      /\ conversationID(q) = ConversationIDOf(req)}
           running == {q \in same : pc[q] # "idle"}
       IN  IF task.err # ""
           THEN /\ Return(p, ResultError(task.err))
                /\ reads' = [reads EXCEPT ![p] = <<>>]
                /\ UNCHANGED <<solo, raced>>
           ELSE /\ pc' = [pc EXCEPT ![p] = "continuation"]
                /\ reads' = [reads EXCEPT ![p] =
                       ReadAttachedFiles("", req.files, NoFilesRead).reads]
                /\ result' = [result EXCEPT ![p] = NoResult]
                /\ solo' = [q \in Procs |->
                              IF q = p THEN running = {}
                              ELSE IF q \in same THEN FALSE ELSE solo[q]]
                /\ raced' = [raced EXCEPT ![ConversationIDOf(req)] =
                               @ \/ running # {}]
    /\ UNCHANGED <<conv, nextID, lastTurn, mu>>

\* The caller cancels the context of the invocation of p.
Cancel(p) ==
    /\ pc[p] # "idle"
    /\ ctxErr[p] = ""
    /\ ctxErr' = [ctxErr EXCEPT ![p] = ContextCanceled]
    /\ late' = [late EXCEPT ![p].at = pc[p]]
    /\ UNCHANGED <<conv, nextID, nreq, lastTurn, pc, request, prevResponseID,
                   params, response, i, toolOutputs, result, ncalls, solo,
                   raced, reads, mu>>

\* Lines 211, 218, 225: the RLock or Lock of the store access p is at
\* returns, and p holds c.mu.
Lock(p) ==
    /\ pc[p] \in {"continuation", "save", "update"}
    /\ ~Holds(p)
    /\ IF pc[p] = "continuation" /\ continueConversation(p)
       THEN CanRLock(p) /\ mu' = [mu EXCEPT !.r = @ \cup {p}]
       ELSE CanLock(p) /\ mu' = [mu EXCEPT !.w = p]
    /\ UNCHANGED <<conv, nextID, nreq, lastTurn, pc, request, prevResponseID,
                   params, response, i, toolOutputs, result, ncalls, solo,
                   raced, ctxErr, late, reads>>

\* Lines 101-114: the previous response identifier, or a cleared store.
Continuation(p) ==
    /\ pc[p] = "continuation"
    /\ Holds(p) \/ IF continueConversation(p) THEN CanRLock(p)
                   ELSE CanLock(p)
    /\ mu' = Unlock(mu, p)
    /\ IF continueConversation(p)
       THEN /\ prevResponseID' =
                  [prevResponseID EXCEPT ![p] = getRespID(conv, conversationID(p))]
            /\ UNCHANGED conv
       ELSE /\ conv' = clearRespID(conv, conversationID(p))
            /\ UNCHANGED prevResponseID
    /\ pc' = [pc EXCEPT ![p] = "call"]
    /\ UNCHANGED <<nextID, nreq, lastTurn, request, params, response, i,
                   toolOutputs, result, ncalls, solo, raced, ctxErr, late,
                   reads>>

\* deepanalysis.go:138-142 and 193-197: what Handle returns when a remote
\* call fails with e
RemoteServiceError(e) == ResultError(RemoteErrorText \o e)

\* Variant: a failed call drops the stored pointer of the conversation.
RemoteFailsAndClears(p, prm, e) ==
    /\ params' = [params EXCEPT ![p] = prm]
    /\ ncalls' = [ncalls EXCEPT ![p] = @ + 1]
    /\ late' = [late EXCEPT ![p].call =
                   @ \/ (/\ ctxErr[p] = ContextCanceled
                         /\ late[p].at \notin {"call", "followup"})]
    /\ Return(p, RemoteServiceError(e))
    /\ conv' = clearRespID(conv, conversationID(p))
    /\ UNCHANGED <<nextID, nreq, lastTurn, request, prevResponseID,
                   response, i, toolOutputs, solo, raced, ctxErr, reads, mu>>

\* The errors c.client.Responses.New(ctx, prm) can fail with: the error of
\* the context once it is cancelled, an error of the service before.
CallErrors(p) == IF ctxErr[p] # "" THEN {ctxErr[p]} ELSE RemoteErrors

\* Variant: a failed call puts back the pointer of the conversation's
\* last turn.
RemoteFailsAndRestores(p, prm, e) ==
    /\ params' = [params EXCEPT ![p] = prm]
    /\ ncalls' = [ncalls EXCEPT ![p] = @ + 1]
    /\ late' = [late EXCEPT ![p].call =
                   @ \/ (/\ ctxErr[p] = ContextCanceled
                         /\ late[p].at \notin {"call", "followup"})]
    /\ Return(p, RemoteServiceError(e))
    /\ conv' = IF lastTurn[conversationID(p)] # NoID
               THEN setRespID(conv, conversationID(p),
                              lastTurn[conversationID(p)])
               ELSE conv
    /\ UNCHANGED <<nextID, nreq, lastTurn, request, prevResponseID,
                   response, i, toolOutputs, solo, raced, ctxErr, reads, mu>>

\* Variant: the error of a failed call is returned as Handle's error.
RemoteFailsWithFault(p, prm, e) ==
    /\ params' = [params EXCEPT ![p] = prm]
    /\ ncalls' = [ncalls EXCEPT ![p] = @ + 1]
    /\ late' = [late EXCEPT ![p].call =
                   @ \/ (/\ ctxErr[p] = ContextCanceled
                         /\ late[p].at \notin {"call", "followup"})]
    /\ Return(p, [returned |-> TRUE, IsError |-> FALSE, Text |-> "",
                  err |-> e])
    /\ UNCHANGED <<conv, nextID, nreq, lastTurn, request, prevResponseID,
                   response, i, toolOutputs, solo, raced, ctxErr, reads, mu>>

\* c.client.Responses.New(ctx, prm) fails with e.
RemoteFails(p, prm, e) ==
    /\ params' = [params EXCEPT ![p] = prm]
    /\ ncalls' = [ncalls EXCEPT ![p] = @ + 1]
    /\ late' = [late EXCEPT ![p].call =
                   @ \/ (/\ ctxErr[p] = ContextCanceled
                         /\ late[p].at \notin {"call", "followup"})]
    /\ Return(p, RemoteServiceError(e))
    /\ UNCHANGED <<conv, nextID, nreq, lastTurn, request, prevResponseID,
                   response, i, toolOutputs, solo, raced, ctxErr, reads, mu>>

\* c.client.Responses.New(ctx, prm) completes a turn with the given output;
\* no turn completes for a context that is cancelled.
RemoteReturns(p, prm, output, next, turns) ==
    /\ nextID <= turns
    /\ ctxErr[p] = ""
    /\ params' = [params EXCEPT ![p] = prm]
    /\ ncalls' = [ncalls EXCEPT ![p] = @ + 1]
    /\ response' = [response EXCEPT ![p] =
                      [ID |-> TurnID(nextID, conversationID(p)),
                       Output |-> output]]
    /\ nextID' = nextID + 1
    /\ lastTurn' = [lastTurn EXCEPT ![conversationID(p)] =
                      TurnID(nextID, conversationID(p))]
    /\ pc' = [pc EXCEPT ![p] = next]
    /\ UNCHANGED <<conv, nreq, request, prevResponseID, i, toolOutputs,
                   result, solo, raced, ctxErr, late, reads, mu>>

\* Lines 116-142: the initial turn.
InitialCallFails(p) ==
    /\ pc[p] = "call"
    /\ \E e \in CallErrors(p) :
          RemoteFails(p, InitialParams(prompt(p), prevResponseID[p]), e)

InitialCallReturns(p, outputs, turns) ==
    /\ pc[p] = "call"
    /\ \E output \in outputs :
          RemoteReturns(p, InitialParams(prompt(p), prevResponseID[p]),
                        output, "save", turns)

\* Variant: one more iteration.
LoopConditionInclusive(j) == j <= maxIterations

\* Line 151: the loop condition.
LoopCondition(j) == j < maxIterations

\* Variant: the text of a turn is returned whether or not the turn holds
\* tool calls.
LoopHeadTextFirst(p, j) ==
    /\ i' = [i EXCEPT ![p] = j]
    /\ IF LoopCondition(j)
       THEN LET toolCalls == extractToolCalls(response[p].Output)
                text == extractTextContent(response[p].Output)
            IN  IF text # ""
                THEN /\ Return(p, ResultText(text))
                     /\ UNCHANGED toolOutputs
                ELSE IF Len(toolCalls) = 0
                THEN /\ Return(p, ResultError(EmptyResponseText))
                     /\ UNCHANGED toolOutputs
                ELSE /\ pc' = [pc EXCEPT ![p] = "exec"]
                     /\ toolOutputs' = [toolOutputs EXCEPT ![p] = <<>>]
                     /\ UNCHANGED result
       ELSE /\ Return(p, ResultError(MaxIterationsText))
            /\ UNCHANGED toolOutputs

\* Lines 151-168 and 206-207: the head of iteration j of the loop.
LoopHead(p, j) ==
    /\ i' = [i EXCEPT ![p] = j]
    /\ IF LoopCondition(j)
       THEN LET toolCalls == extractToolCalls(response[p].Output)
                text == extractTextContent(response[p].Output)
            IN  IF Len(toolCalls) = 0
                THEN /\ Return(p, IF text = "" THEN ResultError(EmptyResponseText)
                                   ELSE ResultText(text))
                     /\ UNCHANGED toolOutputs
                ELSE /\ pc' = [pc EXCEPT ![p] = "exec"]
                     /\ toolOutputs' = [toolOutputs EXCEPT ![p] = <<>>]
                     /\ UNCHANGED result
       ELSE /\ Return(p, ResultError(MaxIterationsText))
            /\ UNCHANGED toolOutputs

\* Variant: the identifier is stored once the turn is found to be final.
SaveIDAfterInspection(p) ==
    /\ pc[p] = "save"
    /\ Holds(p) \/ CanLock(p)
    /\ mu' = Unlock(mu, p)
    /\ conv' = IF extractToolCalls(response[p].Output) = <<>>
               THEN setRespID(conv, conversationID(p), response[p].ID)
               ELSE conv
    /\ LoopHead(p, 0)
    /\ UNCHANGED <<nextID, nreq, lastTurn, request, prevResponseID, params,
                   response, ncalls, solo, raced, ctxErr, late, reads>>

\* Lines 144-148, then the loop is entered.
SaveID(p) ==
    /\ pc[p] = "save"
    /\ Holds(p) \/ CanLock(p)
    /\ mu' = Unlock(mu, p)
    /\ conv' = IF conversationID(p) # ""
               THEN setRespID(conv, conversationID(p), response[p].ID)
               ELSE conv
    /\ LoopHead(p, 0)
    /\ UNCHANGED <<nextID, nreq, lastTurn, request, prevResponseID, params,
                   response, ncalls, solo, raced, ctxErr, late, reads>>

\* Variant: the tool calls of a turn are executed last first.
ExecToolLastFirst(p) ==
    /\ pc[p] = "exec"
    /\ LET toolCalls == extractToolCalls(response[p].Output)
           toolCall == toolCalls[Len(toolCalls) - Len(toolOutputs[p])]
           out == ToolOutput(ctxErr[p], toolCall)
       IN  /\ toolOutputs' = [toolOutputs EXCEPT ![p] =
                  Append(@, FunctionCallOutput(out.CallID, out.Output))]
           /\ pc' = [pc EXCEPT ![p] =
                  IF Len(toolOutputs[p]) + 1 = Len(toolCalls)
                  THEN "followup" ELSE "exec"]
    /\ UNCHANGED <<conv, nextID, nreq, lastTurn, request, prevResponseID,
                   params, response, i, result, ncalls, solo, raced, ctxErr,
                   late, reads, mu>>

\* Variant: a tool call that fails ends the execution of the turn's calls.
ExecToolUntilError(p) ==
    /\ pc[p] = "exec"
    /\ LET toolCalls == extractToolCalls(response[p].Output)
           toolCall == toolCalls[Len(toolOutputs[p]) + 1]
           r == executeFunction(ctxErr[p], toolCall.Name, toolCall.Arguments)
           out == ToolOutput(ctxErr[p], toolCall)
       IN  /\ toolOutputs' = [toolOutputs EXCEPT ![p] =
                  Append(@, FunctionCallOutput(out.CallID, out.Output))]
           /\ pc' = [pc EXCEPT ![p] =
                  IF r.err # "" \/ Len(toolOutputs[p]) + 1 = Len(toolCalls)
                  THEN "followup" ELSE "exec"]
    /\ UNCHANGED <<conv, nextID, nreq, lastTurn, request, prevResponseID,
                   params, response, i, result, ncalls, solo, raced, ctxErr,
                   late, reads, mu>>

\* Lines 169-180: the next tool call of the turn is executed.
ExecTool(p) ==
    /\ pc[p] = "exec"
    /\ LET toolCalls == extractToolCalls(response[p].Output)
           toolCall == toolCalls[Len(toolOutputs[p]) + 1]
           out == ToolOutput(ctxErr[p], toolCall)
       IN  /\ toolOutputs' = [toolOutputs EXCEPT ![p] =
                  Append(@, FunctionCallOutput(out.CallID, out.Output))]
           /\ late' = [late EXCEPT ![p].tool =
                  @ \/ (/\ ctxErr[p] = ContextCanceled
                        /\ CallsProvider(toolCall.Name, toolCall.Arguments))]
           /\ pc' = [pc EXCEPT ![p] =
                  IF Len(toolOutputs[p]) + 1 = Len(toolCalls)
                  THEN "followup" ELSE "exec"]
    /\ UNCHANGED <<conv, nextID, nreq, lastTurn, request, prevResponseID,
                   params, response, i, result, ncalls, solo, raced, ctxErr,
                   reads, mu>>

\* Lines 182-197: the follow-up turn.
FollowUpFails(p) ==
    /\ pc[p] = "followup"
    /\ \E e \in CallErrors(p) :
          RemoteFails(p, FollowUpParams(response[p].ID, toolOutputs[p]), e)

\* Variant: the follow-up chains onto the pointer the store holds.
FollowUpReturnsFromStore(p, outputs, turns) ==
    /\ pc[p] = "followup"
    /\ \E output \in outputs :
          RemoteReturns(p, FollowUpParams(getRespID(conv, conversationID(p)),
                                          toolOutputs[p]),
                        output, "update", turns)

FollowUpReturns(p, outputs, turns) ==
    /\ pc[p] = "followup"
    /\ \E output \in outputs :
          RemoteReturns(p, FollowUpParams(response[p].ID, toolOutputs[p]),
                        output, "update", turns)

\* Variant: the turn that uses up the budget is not stored.
UpdateIDUnlessLast(p) ==
    /\ pc[p] = "update"
    /\ Holds(p) \/ CanLock(p)
    /\ mu' = Unlock(mu, p)
    /\ conv' = IF LoopCondition(i[p] + 1)
               THEN setRespID(conv, conversationID(p), response[p].ID)
               ELSE conv
    /\ LoopHead(p, i[p] + 1)
    /\ UNCHANGED <<nextID, nreq, lastTurn, request, prevResponseID, params,
                   response, ncalls, solo, raced, ctxErr, late, reads>>

\* Variant: the identifier of a follow-up turn is not stored.
UpdateIDWithoutStore(p) ==
    /\ pc[p] = "update"
    /\ Holds(p) \/ CanLock(p)
    /\ mu' = Unlock(mu, p)
    /\ conv' = conv
    /\ LoopHead(p, i[p] + 1)
    /\ UNCHANGED <<nextID, nreq, lastTurn, request, prevResponseID, params,
                   response, ncalls, solo, raced, ctxErr, late, reads>>

\* Lines 199-204, then the next iteration.
UpdateID(p) ==
    /\ pc[p] = "update"
    /\ Holds(p) \/ CanLock(p)
    /\ mu' = Unlock(mu, p)
    /\ conv' = IF conversationID(p) # ""
               THEN setRespID(conv, conversationID(p), response[p].ID)
               ELSE conv
    /\ LoopHead(p, i[p] + 1)
    /\ UNCHANGED <<nextID, nreq, lastTurn, request, prevResponseID, params,
                   response, ncalls, solo, raced, ctxErr, late, reads>>

(***************************************************************************)
(* The inputs: the requests callers send and the outputs the remote        *)
(* service returns.                                                         *)
(***************************************************************************)
\* Sequences over S of length at most n.
SeqsUpTo(S, n) == UNION {[1..k -> S] : k \in 0..n}

Items ==
    { FunctionCall("call_1", "read_file", ArgsReadMain),
      FunctionCall("call_2", "read_file", ArgsBroken),
      FunctionCall("call_3", "write_file", ArgsEmpty),
      FunctionCall("call_4", "grep_files", ArgsGrepBad),
      Message(<<Refusal("no"), OutputText("done")>>) }

AllOutputs == SeqsUpTo(Items, MaxItems)

\* A final answer, a tool call, an answer without text.
Outputs ==
    { <<Message(<<OutputText("done")>>)>>,
      <<FunctionCall("call_1", "read_file", ArgsReadMain)>>,
      <<Reasoning>> }

Requests ==
    [task : {Absent, Bool(TRUE), Str(""), Str("  "), Str("review")},
     context : {Absent}, files : {<<>>},
     continue : {Absent, Bool(TRUE), Bool(FALSE)},
     conversation_id : {Absent, Str(""), Str("a")}]

ConcOutputs ==
    { <<Message(<<OutputText("done")>>)>>,
      <<FunctionCall("call_1", "read_file", ArgsReadMain)>> }

ConcRequests ==
    [task : {Str("review")},
     context : {Absent}, files : {<<>>},
     continue : {Absent, Bool(FALSE)},
     conversation_id : {Absent, Str("a")}]

ToolRequests ==
    [task : {Str("review")},
     context : {Absent}, files : {<<>>},
     continue : {Absent},
     conversation_id : {Absent}]

\* Requests whose context is cancelled at some point; tool calls that reach
\* the provider and one that does not.
CancelRequests ==
    [task : {Str("review")},
     context : {Absent}, files : {<<>>},
     continue : {Absent, Bool(FALSE)},
     conversation_id : {Absent}]

CancelOutputs ==
    { <<Message(<<OutputText("done")>>)>>,
      <<FunctionCall("call_1", "read_file", ArgsReadMain),
        FunctionCall("call_2", "read_file", ArgsReadGone)>>,
      <<FunctionCall("call_3", "write_file", ArgsEmpty)>> }

\* Requests with context and attached files; final answers of every shape
\* of text parts, in one message or two.
IORequests ==
    [task : {Str("review")},
     context : {Absent, Str(""), Str("notes")},
     files : {<<>>, <<"main.go">>, <<"gone.go", "main.go">>,
              <<"main.go", "main.go">>},
     continue : {Absent},
     conversation_id : {Absent}]

TextPartSeqs == SeqsUpTo({OutputText(""), OutputText("a"), OutputText("b")},
                         MaxParts)

IOOutputs ==
    {<<Message(content)>> : content \in TextPartSeqs}
        \cup {<<Message(<<OutputText("a")>>), Reasoning, Message(content)>> :
                content \in TextPartSeqs}
        \cup {<<FunctionCall("call_1", "read_file", ArgsReadMain)>>}

\* Requests on the same and on different identifiers, the identifier
\* "default" named in both ways.
LockRequests ==
    [task : {Str("review")},
     context : {Absent}, files : {<<>>},
     continue : {Absent, Bool(FALSE)},
     conversation_id : {Absent, Str(""), Str("a")}]

\* Requests with and without a task, attached files and continue.
ArgRequests ==
    [task : {Absent, Bool(TRUE), Str("review")},
     context : {Absent},
     files : {<<>>, <<"gone.go", "main.go">>},
     continue : {Absent, Bool(FALSE)},
     conversation_id : {Absent}]

\* A final answer, a tool call, a tool call that comes with text.
LiveOutputs ==
    ConcOutputs \cup
        { <<Message(<<OutputText("reading")>>),
            FunctionCall("call_1", "read_file", ArgsReadMain)>> }

Step(p, reqs, requests, outputs, turns) ==
    \/ \E req \in reqs : Start(p, req, requests)
    \/ Continuation(p)
    \/ InitialCallFails(p)
    \/ InitialCallReturns(p, outputs, turns)
    \/ SaveID(p)
    \/ ExecTool(p)
    \/ FollowUpFails(p)
    \/ FollowUpReturns(p, outputs, turns)
    \/ UpdateID(p)

\* One invocation at a time, as long as the loop can run.
Next == Step("p1", Requests, MaxRequests, Outputs, MaxTurns)
Spec == Init /\ [][Next]_vars

\* Concurrent invocations.
NextConc ==
    \E p \in Procs :
        Step(p, ConcRequests, MaxConcRequests, ConcOutputs, MaxConcTurns)
SpecConc == Init /\ [][NextConc]_vars

\* One invocation at a time, over all outputs.
NextTools ==
    Step("p1", ToolRequests, MaxToolRequests, AllOutputs, MaxToolTurns)
SpecTools == Init /\ [][NextTools]_vars

\* One invocation at a time, with a context the caller can cancel.
NextCancel ==
    \/ Step("p1", CancelRequests, MaxCancelRequests, CancelOutputs,
            MaxCancelTurns)
    \/ Cancel("p1")
SpecCancel == Init /\ [][NextCancel]_vars

\* One invocation at a time, over prompts and texts.
NextIO == Step("p1", IORequests, MaxIORequests, IOOutputs, MaxIOTurns)
SpecIO == Init /\ [][NextIO]_vars

\* Concurrent invocations, with the steps of c.mu.
NextLock ==
    \E p \in Procs :
        \/ Step(p, LockRequests, MaxLockRequests, ConcOutputs, MaxLockTurns)
        \/ Lock(p)
SpecLock == Init /\ [][NextLock]_vars

\* One invocation at a time, over request arguments.
NextArgs ==
    Step("p1", ArgRequests, MaxArgRequests, ConcOutputs, MaxArgTurns)
SpecArgs == Init /\ [][NextArgs]_vars

\* A step of Handle: every step but the arrival of a request.
Progress(p, outputs, turns) ==
    \/ Continuation(p)
    \/ InitialCallFails(p)
    \/ InitialCallReturns(p, outputs, turns)
    \/ SaveID(p)
    \/ ExecTool(p)
    \/ FollowUpFails(p)
    \/ FollowUpReturns(p, outputs, turns)
    \/ UpdateID(p)

\* The service completes as many turns as Handle asks for.
LiveTurns == (maxIterations + 2) * MaxLiveRequests

\* One invocation at a time; the goroutine of an invocation keeps running,
\* and every call it makes returns.
NextLive ==
    \/ \E req \in ToolRequests : Start("p1", req, MaxLiveRequests)
    \/ Progress("p1", LiveOutputs, LiveTurns)
    \/ Cancel("p1")
SpecLive ==
    /\ Init
    /\ [][NextLive]_vars
    /\ WF_vars(Progress("p1", LiveOutputs, LiveTurns))

(***************************************************************************)
(* Properties.                                                              *)
(***************************************************************************)
\* The task argument is a string that is empty or holds only white space.
BlankTask(req) ==
    req.task.kind = "string" /\ req.task.str \in {"", " ", "  "}

Returned(p) == pc[p] = "idle" /\ result[p].returned

BudgetExhausted(p) == Returned(p) /\ result[p] = ResultError(MaxIterationsText)

\* The output is a final answer: no tool call, and text.
FinalAnswer(output) ==
    /\ \A k \in 1..Len(output) : output[k].Type # "function_call"
    /\ extractTextContent(output) # ""

\* C1: a request whose task text is empty or only white space gets an
\* error result, and no remote call is issued for it.
C1_BlankTaskRejected ==
    \A p \in Procs :
        BlankTask(request[p]) =>
            /\ ncalls[p] = 0
            /\ Returned(p) => result[p].IsError

\* C2, as claimed: Handle never issues more than maxIterations remote
\* calls, and returns the budget error after exactly maxIterations of them.
C2_BudgetAfterMaxIterationsTurns ==
    \A p \in Procs :
        /\ ncalls[p] <= maxIterations
        /\ BudgetExhausted(p) => ncalls[p] = maxIterations

\* C2, amended: Handle never issues more than maxIterations + 1 remote
\* calls (the initial turn and one follow-up turn per iteration), and
\* returns the budget error after exactly maxIterations + 1 of them, every
\* one of which returned a tool call.
C2_BudgetAfterInitialAndFollowUps ==
    \A p \in Procs :
        /\ ncalls[p] <= maxIterations + 1
        /\ BudgetExhausted(p) =>
              /\ ncalls[p] = maxIterations + 1
              /\ i[p] = maxIterations
              /\ params[p].Input # <<>>

C2_Witness ==
    \E p \in Procs : BudgetExhausted(p) /\ ncalls[p] = maxIterations + 1

\* C3: the budget error is returned only when no final answer was
\* received: the turn received last is not a final answer when Handle
\* returns the budget error.
C3_NoBudgetErrorOverFinalAnswer ==
    \A p \in Procs :
        BudgetExhausted(p) => ~FinalAnswer(response[p].Output)

IsFunctionCall(item) == item.Type = "function_call"

\* The call identifiers of the function_call items of an output, in order.
FunctionCallIDs(output) ==
    LET calls == SelectSeq(output, IsFunctionCall)
    IN  [k \in 1..Len(calls) |-> calls[k].CallID]

\* The step of p is a remote call (it returns or it fails).
RemoteCall(p) ==
    /\ pc[p] \in {"call", "followup"}
    /\ pc'[p] # pc[p]

\* The step of p is a remote call that fails.
RemoteFailure(p) ==
    /\ pc[p] \in {"call", "followup"}
    /\ pc'[p] = "idle"

\* No invocation on c holds a turn it has received and not yet stored.
NothingToStore(c) ==
    \A p \in Procs :
        pc[p] \in {"save", "update"} => conversationID(p) # c

\* C4: the follow-up turn submitted after a turn with N tool calls carries
\* exactly N tool outputs, the k-th with the call identifier of the k-th
\* tool call, whatever the outcome of each execution.
C4_OneOutputPerToolCall ==
    [][\A p \in Procs :
          (pc[p] = "followup" /\ RemoteCall(p)) =>
              LET ids == FunctionCallIDs(response[p].Output)
                  sent == params'[p].Input
              IN  /\ Len(sent) = Len(ids)
                  /\ \A k \in 1..Len(ids) :
                        /\ sent[k].Type = "function_call_output"
                        /\ sent[k].CallID = ids[k]]_vars

\* A follow-up was submitted with the output of a failed call and the
\* output of a successful one.
C4_Witness ==
    \E p \in Procs :
        /\ ncalls[p] = 2
        /\ params[p].Input =
              <<FunctionCallOutput("call_3", "Error: unknown function: write_file"),
                FunctionCallOutput("call_1", "package main")>>

\* C5: with continue=false the stored pointer of the conversation
\* identifier is cleared before the initial turn is submitted, and the
\* initial turn carries no continuation pointer, whatever is written to the
\* store in between.
C5_FreshStartSendsNoPointer ==
    [][\A p \in Procs :
          ~continueConversation(p) =>
              /\ (pc[p] = "continuation" /\ pc'[p] # "continuation") =>
                    /\ pc'[p] = "call"
                    /\ conversationID(p) \notin DOMAIN conv'
              /\ (pc[p] = "call" /\ RemoteCall(p)) =>
                    /\ params'[p].Instructions
                    /\ params'[p].PreviousResponseID = NoID]_vars

\* A request with continue=false has cleared the store and is about to
\* submit, and another request has written a pointer for the same
\* identifier since.
C5_Witness ==
    \E p \in Procs :
        /\ pc[p] = "call"
        /\ ~continueConversation(p)
        /\ conversationID(p) \in DOMAIN conv

\* C6: with continue=true the initial turn carries the pointer that was
\* stored for the conversation identifier when it was looked up, and no
\* pointer when none was stored; the lookup never ends the request.
C6_ContinueSendsStoredPointer ==
    [][\A p \in Procs :
          continueConversation(p) =>
              /\ (pc[p] = "continuation" /\ pc'[p] # "continuation") =>
                    /\ pc'[p] = "call"
                    /\ conv' = conv
                    /\ prevResponseID'[p] =
                          IF conversationID(p) \in DOMAIN conv
                          THEN conv[conversationID(p)] ELSE NoID
              /\ (pc[p] = "call" /\ RemoteCall(p)) =>
                    /\ params'[p].Instructions
                    /\ params'[p].PreviousResponseID = prevResponseID[p]]_vars

C6_Witness ==
    \E p \in Procs :
        /\ continueConversation(p)
        /\ pc[p] = "save"
        /\ params[p].PreviousResponseID # NoID
        /\ params[p].PreviousResponseID.conv = conversationID(p)

\* C7: every value in the store is the identifier of a turn the service
\* completed for an invocation on that conversation identifier, and a
\* failed remote call writes nothing to the store.
C7_StoreHoldsCompletedTurns ==
    /\ [](\A c \in DOMAIN conv :
             /\ conv[c].conv = c
             /\ conv[c].n \in 1..(nextID - 1))
    /\ [][\A p \in Procs : RemoteFailure(p) => conv' = conv]_vars

\* A follow-up call has failed while the store holds pointers for both
\* conversation identifiers.
C7_Witness ==
    /\ DOMAIN conv = ConvIDs
    /\ \E p \in Procs :
          /\ Returned(p)
          /\ result[p] \in {ResultError(RemoteErrorText \o e) : e \in RemoteErrors}
          /\ ncalls[p] >= 2

\* C8, as claimed: the stored pointer of an identifier is the turn the
\* service completed last for it, also with concurrent invocations on the
\* identifier (read in the states where no invocation holds a turn it has
\* yet to store).
C8_StoredPointerIsLastTurn ==
    \A c \in DOMAIN conv :
        NothingToStore(c) => conv[c] = lastTurn[c]

\* C8, amended: the same, for an identifier on which no two invocations
\* have run at the same time.
C8_StoredPointerIsLastTurnUnlessRaced ==
    \A c \in DOMAIN conv :
        (NothingToStore(c) /\ ~raced[c]) => conv[c] = lastTurn[c]

\* Two invocations run at the same time on different identifiers, each
\* with its latest turn stored.
C8_Witness ==
    \E p, q \in Procs :
        /\ pc[p] = "followup" /\ pc[q] = "followup"
        /\ conversationID(p) # conversationID(q)
        /\ ~raced[conversationID(p)] /\ ~raced[conversationID(q)]
        /\ DOMAIN conv = ConvIDs
        /\ conv[conversationID(p)] = response[p].ID
        /\ conv[conversationID(q)] = response[q].ID

\* C9: when Handle returns a text result and no other request has run on
\* the conversation identifier meanwhile, the stored pointer is the
\* identifier of the turn the text came from.
C9_FinalTurnIsStored ==
    \A p \in Procs :
        (Returned(p) /\ ~result[p].IsError /\ solo[p]) =>
            /\ conversationID(p) \in DOMAIN conv
            /\ conv[conversationID(p)] = response[p].ID

C9_Witness ==
    \E p \in Procs :
        /\ Returned(p) /\ ~result[p].IsError /\ solo[p]
        /\ ncalls[p] >= 2
        /\ conv[conversationID(p)] = response[p].ID

\* C10: a remote call that fails ends the invocation with a remote-service
\* error result, after that one call, and leaves the store as it was.
C10_FailedCallIsTerminalAndWritesNothing ==
    [][\A p \in Procs :
          RemoteFailure(p) =>
              /\ Returned(p)'
              /\ result'[p] \in {ResultError(RemoteErrorText \o e) : e \in RemoteErrors}
              /\ ncalls'[p] = ncalls[p] + 1
              /\ conv' = conv
              /\ nextID' = nextID]_vars

\* An initial call has failed for a request that continues a stored
\* conversation.
C10_Witness ==
    \E p \in Procs :
        /\ Returned(p)
        /\ result[p] \in {ResultError(RemoteErrorText \o e) : e \in RemoteErrors}
        /\ ncalls[p] = 1
        /\ params[p].PreviousResponseID # NoID
        /\ conv[conversationID(p)] = params[p].PreviousResponseID

\* The invocation of p has ended in an error after a turn was completed
\* for it.
FailedAfterTurn(p) ==
    Returned(p) /\ result[p].IsError /\ response[p].ID # NoID

\* The pointer the store holds for the conversation identifier of p.
StoredPointer(p) ==
    IF conversationID(p) \in DOMAIN conv THEN conv[conversationID(p)]
    ELSE NoID

\* C11: the identifier of a completed turn is stored in the step after
\* the call, whatever the turn holds; when a later tool execution,
\* follow-up call or cancellation ends the request in an error the store
\* holds the identifier of the last turn completed for the request; the
\* arrival of the next request leaves the store as it is, and with
\* continue=true its initial turn carries the stored pointer.
C11_StoredPointerSurvivesLaterFailure ==
    /\ [](\A p \in Procs :
             FailedAfterTurn(p) => StoredPointer(p) = response[p].ID)
    /\ [][\A p \in Procs :
             /\ (pc[p] \in {"save", "update"} /\ pc'[p] # pc[p]) =>
                   /\ conversationID(p) \in DOMAIN conv'
                   /\ conv'[conversationID(p)] = response[p].ID
             /\ (pc[p] = "idle" /\ pc'[p] # "idle") => conv' = conv
             /\ (pc[p] = "call" /\ RemoteCall(p) /\ continueConversation(p)) =>
                   params'[p].PreviousResponseID = StoredPointer(p)]_vars

\* A request was cancelled while its tool calls were executed and ended
\* in an error, and the store holds the turn that asked for the tools.
C11_Witness ==
    \E p \in Procs :
        /\ FailedAfterTurn(p)
        /\ late[p].at = "exec"
        /\ StoredPointer(p) = response[p].ID

\* C12: when the context is cancelled while the tool calls of a turn are
\* executed, Handle calls the provider no more and begins no remote call,
\* and the error it returns is the cancellation.
C12_NothingIssuedAfterCancellation ==
    \A p \in Procs :
        late[p].at = "exec" =>
            /\ ~late[p].tool
            /\ ~late[p].call
            /\ Returned(p) => result[p].IsError

\* The results Handle returns for a remote call that failed in the
\* service or on the way to it.
RemoteServiceErrors == {RemoteServiceError(e) : e \in RemoteErrors}

\* The condition an error result reports: the message of the return
\* statement that built it, without the error it wraps.
ErrorCondition(res) ==
    CASE res.Text = EmptyResponseText -> EmptyResponseText
      [] res.Text = MaxIterationsText -> MaxIterationsText
      [] res \in RemoteServiceErrors \cup {RemoteServiceError(ContextCanceled)}
           -> RemoteErrorText
      [] OTHER -> res.Text

\* C13: the result of a request that cancellation ended reports another
\* condition than the result of a request that a failure of the remote
\* service ended.
C13_CancellationIsDistinctCondition ==
    \A p \in Procs :
        (Returned(p) /\ result[p].IsError /\ ctxErr[p] = ContextCanceled) =>
            \A res \in RemoteServiceErrors :
                ErrorCondition(result[p]) # ErrorCondition(res)

\* C14: whatever Handle returns, the error it returns beside the result
\* is nil; a missing task, a failed remote call, an empty response and an
\* exhausted budget are each returned as an error result.
C14_OutcomeIsInResult ==
    \A p \in Procs :
        Returned(p) =>
            /\ result[p].err = ""
            /\ RequireString(request[p].task).err # "" => result[p].IsError
            /\ ~FinalAnswer(response[p].Output) => result[p].IsError
            /\ i[p] = maxIterations => result[p].IsError

\* A follow-up call has failed and Handle has returned an error result.
C14_Witness ==
    \E p \in Procs :
        /\ Returned(p)
        /\ ncalls[p] = 2
        /\ result[p] \in RemoteServiceErrors
        /\ result[p].err = ""

\* What the execution of each tool call of the model's responses gives.
ExpectedToolOutput(item) ==
    CASE item.CallID = "call_1" -> "package main"
      [] item.CallID = "call_2" ->
             "Error: invalid arguments: unexpected end of JSON input"
      [] item.CallID = "call_3" -> "Error: unknown function: write_file"
      [] item.CallID = "call_4" -> "Error: invalid regex pattern"

\* C15: a tool call that fails (its arguments do not parse, its name is
\* unknown, the provider returns an error) gets the output "Error: " and
\* the reason, and ends nothing: every tool call of the turn is executed
\* and gets its own output, and the follow-up turn is submitted with all
\* of them.
C15_FailedToolCallIsInline ==
    [][\A p \in Procs :
          /\ (pc[p] = "exec" /\ pc'[p] # "exec") =>
                /\ pc'[p] = "followup"
                /\ Len(toolOutputs'[p]) =
                      Len(SelectSeq(response[p].Output, IsFunctionCall))
          /\ (pc[p] = "followup" /\ RemoteCall(p)) =>
                LET calls == SelectSeq(response[p].Output, IsFunctionCall)
                    sent == params'[p].Input
                IN  /\ Len(sent) = Len(calls)
                    /\ \A k \in 1..Len(calls) :
                          sent[k].Text = ExpectedToolOutput(calls[k])]_vars

\* A follow-up was submitted with the output of a call whose arguments
\* did not parse and the output of a call made after it.
C15_Witness ==
    \E p \in Procs :
        /\ ncalls[p] = 2
        /\ params[p].Input =
              <<FunctionCallOutput("call_2",
                    "Error: invalid arguments: unexpected end of JSON input"),
                FunctionCallOutput("call_1", "package main")>>

\* The entry of the Attached Files section for each path of the model's
\* requests: the content of main.go, the error of the read of gone.go.
ExpectedEntry(path) ==
    CASE path = "main.go" -> "File: main.go\n~~~\npackage main\n~~~\n"
      [] path = "gone.go" ->
             "File: gone.go\nError: failed to stat file: gone.go\n"

\* The entries of the paths, in order, one line apart.
RECURSIVE ExpectedEntries(_)
ExpectedEntries(files) ==
    IF Len(files) = 1 THEN ExpectedEntry(files[1])
    ELSE ExpectedEntry(Head(files)) \o "\n" \o ExpectedEntries(Tail(files))

\* C16: each attached path is read once, in the order of the list,
\* whether or not an earlier read failed; the request goes on to its
\* initial remote call, and the prompt of that call holds, between the
\* context and the task, the Attached Files section with one entry per
\* path in the order of the list: the error of a read that failed, the
\* content of a read that succeeded.
C16_AttachedFilesAllReadAndSent ==
    /\ [](\A p \in Procs :
             LET files == request[p].files
                 context == GetString(request[p].context, "")
             IN  /\ (pc[p] # "idle" \/ Returned(p)) => reads[p] = files
                 /\ (ncalls[p] = 1 /\ Len(files) > 0) =>
                       params[p].Input =
                          <<InputMessage(
                               (IF context # "" THEN "Context:\n" \o context
                                ELSE "")
                               \o "\nAttached Files:\n"
                               \o ExpectedEntries(files)
                               \o "\n\nTask:\n"
                               \o request[p].task.str)>>)
    /\ [][\A p \in Procs :
             /\ (pc[p] = "idle" /\ pc'[p] # "idle") => pc'[p] = "continuation"
             /\ (pc[p] = "continuation" /\ pc'[p] # "continuation") =>
                   pc'[p] = "call"
             /\ (pc[p] = "call" /\ pc'[p] # "call") => ncalls'[p] = 1]_vars

\* The initial call was made for a request with two attached files, the
\* first of which could not be read.
C16_Witness ==
    \E p \in Procs :
        /\ ncalls[p] = 1
        /\ request[p].files = <<"gone.go", "main.go">>
        /\ request[p].context = Str("notes")
        /\ reads[p] = <<"gone.go", "main.go">>
        /\ params[p].Instructions

\* C17: when a turn is completed with no tool call and no text, Handle
\* returns the empty-response error, which is neither the error of a
\* failed remote call nor the budget error, and issues no further call.
C17_EmptyTurnIsEmptyResponseError ==
    \A p \in Procs :
        (/\ Returned(p)
         /\ response[p].ID # NoID
         /\ extractToolCalls(response[p].Output) = <<>>
         /\ extractTextContent(response[p].Output) = "") =>
            /\ result[p] = ResultError(EmptyResponseText)
            /\ result[p] \notin RemoteServiceErrors
            /\ result[p] # ResultError(MaxIterationsText)

\* C18: the text Handle returns for a final turn is the text parts of its
\* message items, in order, joined by newlines, empty parts included.
C18_TextIsNewlineJoin ==
    \A p \in Procs :
        (Returned(p) /\ ~result[p].IsError) =>
            result[p].Text = joinStrings(TextParts(response[p].Output), "\n")

DefaultPointer == IF "default" \in DOMAIN conv THEN conv["default"] ELSE NoID

C20_HandleReturns ==
    /\ \A p \in Procs : [](pc[p] # "idle" => <>(pc[p] = "idle"))
    /\ [](\A p \in Procs :
             /\ ncalls[p] <= maxIterations + 1
             /\ i[p] <= maxIterations
             /\ pc[p] = "exec" => i[p] < maxIterations)

\* The second invocation has returned after every turn of it asked for a
\* tool.
C20_Witness ==
    \E p \in Procs :
        /\ nreq = 2
        /\ BudgetExhausted(p)
        /\ i[p] = maxIterations

\* The turn identifiers a set can be made with: those in the store and
\* the next one of each conversation identifier.
SomeIDs ==
    {conv[c] : c \in DOMAIN conv} \cup {TurnID(nextID, c) : c \in ConvIDs}

\* C21: for every store the program reaches and every identifier c: get
\* of an identifier that has no entry gives the empty value and clear of
\* it leaves the store as it is; clear twice is clear once; get after set
\* gives the value set; get after clear gives the empty value.  A get or
\* a clear of an identifier that has no entry does not end the request.
C21_StoreOperations ==
    /\ [](\A c \in ConvIDs :
             /\ c \notin DOMAIN conv =>
                   /\ getRespID(conv, c) = NoID
                   /\ clearRespID(conv, c) = conv
             /\ clearRespID(clearRespID(conv, c), c) = clearRespID(conv, c)
             /\ getRespID(clearRespID(conv, c), c) = NoID
             /\ \A r \in SomeIDs : getRespID(setRespID(conv, c, r), c) = r)
    /\ [][\A p \in Procs :
             (/\ pc[p] = "continuation" /\ pc'[p] # "continuation"
              /\ conversationID(p) \notin DOMAIN conv) =>
                 /\ pc'[p] = "call"
                 /\ conv' = conv
                 /\ continueConversation(p) => prevResponseID'[p] = NoID]_vars

\* A request with continue=false has cleared the identifier "default",
\* for which no turn was ever completed, while the store holds a pointer
\* for the other identifier.
C21_Witness ==
    \E p \in Procs :
        /\ pc[p] = "call"
        /\ ~continueConversation(p)
        /\ conversationID(p) = "default"
        /\ lastTurn["default"] = NoID
        /\ DOMAIN conv = {"a"}

\* The entry of c is removed by this step.
Removed(c) == c \in DOMAIN conv /\ c \notin DOMAIN conv'

\* p clears the store in this step: it is a request with continue=false
\* at its continuation step.
Clears(p) ==
    /\ pc[p] = "continuation" /\ pc'[p] = "call"
    /\ ~continueConversation(p)

\* C22: an entry of the store stays in the store, with the same or
\* another pointer, until a request with continue=false for its
\* identifier removes it at its continuation step; no other step removes
\* an entry.
C22_NoEviction ==
    [][\A c \in ConvIDs :
          Removed(c) =>
              \E p \in Procs : Clears(p) /\ conversationID(p) = c]_vars

\* Every invocation has returned and the store holds a pointer for each
\* identifier, one of them overwritten by a later turn.
C22_Witness ==
    /\ DOMAIN conv = ConvIDs
    /\ nreq = MaxConcRequests
    /\ \A p \in Procs : Returned(p)
    /\ \E c \in ConvIDs : conv[c].n > 2

\* C23: a follow-up turn carries the tool outputs and the tool
\* declarations, no instructions and no message, and its continuation
\* pointer is the identifier of the turn the service completed for the
\* call the same invocation made before it, whatever the store holds by
\* then.
C23_FollowUpChainsOnOwnTurn ==
    [][\A p \in Procs :
          /\ (pc[p] \in {"call", "followup"} /\ pc'[p] \in {"save", "update"}) =>
                response'[p].ID = TurnID(nextID, conversationID(p))
          /\ (pc[p] \in {"save", "update", "exec", "followup"}
                 /\ pc'[p] \in {"exec", "followup"}) =>
                response'[p] = response[p]
          /\ (pc[p] = "followup" /\ RemoteCall(p)) =>
                LET sent == params'[p]
                IN  /\ ~sent.Instructions
                    /\ sent.Tools
                    /\ sent.PreviousResponseID = response[p].ID
                    /\ Len(sent.Input) >= 1
                    /\ \A k \in 1..Len(sent.Input) :
                          sent.Input[k].Type = "function_call_output"]_vars

\* A follow-up turn was completed for an invocation while the store held
\* the pointer of a turn completed for another invocation on the same
\* identifier after the turn the follow-up chains onto.
C23_Witness ==
    \E p \in Procs :
        /\ pc[p] = "update"
        /\ conversationID(p) \in DOMAIN conv
        /\ params[p].PreviousResponseID.n < conv[conversationID(p)].n
        /\ conv[conversationID(p)].n < response[p].ID.n

\* C24: the operations of one invocation come one at a time: a step that
\* executes a tool call executes one, the next of the turn in the order
\* received, and issues no remote call; the follow-up call is issued in
\* a step of its own, once every tool call of the turn has its output.
C24_OneOperationAtATime ==
    [][\A p \in Procs :
          LET calls == FunctionCallIDs(response[p].Output)
              done == Len(toolOutputs[p])
          IN  /\ (pc[p] = "exec" /\ toolOutputs'[p] # toolOutputs[p]) =>
                    /\ Len(toolOutputs'[p]) = done + 1
                    /\ SubSeq(toolOutputs'[p], 1, done) = toolOutputs[p]
                    /\ toolOutputs'[p][done + 1].CallID = calls[done + 1]
                    /\ ncalls'[p] = ncalls[p]
              /\ (pc[p] = "exec" /\ pc'[p] = "followup") =>
                    done + 1 = Len(calls)
              /\ (pc[p] = "followup" /\ RemoteCall(p)) =>
                    /\ done = Len(calls)
                    /\ toolOutputs'[p] = toolOutputs[p]
                    /\ ncalls'[p] = ncalls[p] + 1]_vars

\* The first of two tool calls of a turn was executed and the second is
\* next.
C24_Witness ==
    \E p \in Procs :
        /\ pc[p] = "exec"
        /\ FunctionCallIDs(response[p].Output) = <<"call_4", "call_2">>
        /\ Len(toolOutputs[p]) = 1
        /\ toolOutputs[p][1].CallID = "call_4"

\* p is at a store access: a get, a set or a clear.
AtStore(p) == pc[p] \in {"continuation", "save", "update"}

\* C25: c.mu is held for one store access at a time: a process that
\* holds it is at a store access and gives it back with that access, so
\* nobody holds it during a remote call or a file operation; while a
\* writer holds it nobody else holds it and nobody else reads or changes
\* the store; and a process that waits for it waits for a process that
\* is at its store access, so no invocations deadlock.
C25_LockHeldForOneAccess ==
    /\ [](/\ mu.w # "" => mu.r = {}
          /\ \A p \in Procs :
                /\ Holds(p) => AtStore(p)
                /\ (AtStore(p) /\ ~Holds(p) /\ ~CanRLock(p)) =>
                      AtStore(mu.w)
                /\ (AtStore(p) /\ ~Holds(p) /\ CanRLock(p) /\ ~CanLock(p)) =>
                      \A q \in mu.r : AtStore(q))
    /\ [][/\ \A p \in Procs :
               /\ (Holds(p) /\ pc'[p] # pc[p]) => ~Holds(p)'
               /\ (~Holds(p) /\ Holds(p)') => (pc'[p] = pc[p] /\ conv' = conv)
          /\ \A p \in Procs :
               (mu.w = p /\ pc'[p] = pc[p]) =>
                   /\ conv' = conv
                   /\ mu' = mu
                   /\ \A q \in Procs \ {p} :
                          AtStore(q) => pc'[q] = pc[q]]_vars

\* An invocation holds c.mu to store its turn while the other invocation
\* waits to look up its pointer.
C25_Witness ==
    \E p, q \in Procs :
        /\ mu.w = p
        /\ pc[p] = "save"
        /\ pc[q] = "continuation"
        /\ continueConversation(q)

\* C26: a step of an invocation on the identifier c leaves the entry of
\* every other identifier as it is, and its lookup gives the pointer of
\* c or none; an invocation whose conversation_id is absent or empty
\* stores its turns under "default" and clears "default".
C26_ConversationsAreIsolated ==
    [][\A p \in Procs :
          (pc'[p] # pc[p] /\ pc[p] # "idle") =>
              /\ \A d \in ConvIDs \ {conversationID(p)} :
                    /\ d \in DOMAIN conv <=> d \in DOMAIN conv'
                    /\ d \in DOMAIN conv => conv'[d] = conv[d]
              /\ (pc[p] = "continuation" /\ continueConversation(p)) =>
                    prevResponseID'[p] = StoredPointer(p)
              /\ request[p].conversation_id \in {Absent, Str("")} =>
                    /\ pc[p] \in {"save", "update"} =>
                          /\ "default" \in DOMAIN conv'
                          /\ conv'["default"] = response[p].ID
                    /\ Clears(p) => "default" \notin DOMAIN conv']_vars

\* Two invocations run at the same time, one with an empty
\* conversation_id and one on "a", and each has stored its turn under
\* its identifier.
C26_Witness ==
    \E p, q \in Procs :
        /\ pc[p] = "exec" /\ pc[q] = "exec"
        /\ request[p].conversation_id = Str("")
        /\ request[q].conversation_id = Str("a")
        /\ DOMAIN conv = ConvIDs
        /\ conv["default"] = response[p].ID
        /\ conv["a"] = response[q].ID

\* The initial turn of a request with continue=true carries the pointer
\* the store holds, and the arrival of a request leaves the store as it
\* is (read where one invocation runs at a time).
NextRequestSendsStoredPointer(p) ==
    /\ (pc[p] = "idle" /\ pc'[p] # "idle") => conv' = conv
    /\ (pc[p] = "call" /\ RemoteCall(p) /\ continueConversation(p)) =>
          params'[p].PreviousResponseID = StoredPointer(p)

\* C27: when the initial call of a request with continue=false fails,
\* and one invocation runs at a time, the store holds no pointer for the
\* identifier: the pointer it held before the request is not put back,
\* and the next request with continue=true sends none.
C27_ClearedPointerIsNotRestored ==
    /\ [](\A p \in Procs :
             (/\ Returned(p)
              /\ ~continueConversation(p)
              /\ ncalls[p] = 1
              /\ result[p] \in RemoteServiceErrors) =>
                 conversationID(p) \notin DOMAIN conv)
    /\ [][\A p \in Procs :
             /\ NextRequestSendsStoredPointer(p)
             /\ RemoteFailure(p) => conv' = conv]_vars

\* The third request, with continue=true, has submitted its initial turn
\* without a pointer: the first request stored a turn and the second,
\* with continue=false, cleared it and failed.
C27_Witness ==
    \E p \in Procs :
        /\ nreq = 3
        /\ pc[p] = "save"
        /\ continueConversation(p)
        /\ params[p].PreviousResponseID = NoID
        /\ response[p].ID.n = 2
        /\ conv = EmptyStore

\* C28: when Handle returns the budget error and one invocation runs at
\* a time, the stored pointer is the identifier of the turn received
\* last, a turn no follow-up chains onto and for which no tool call was
\* executed (the outputs Handle holds are those it sent to get that
\* turn); the next request with continue=true chains onto it.
C28_BudgetErrorLeavesUnansweredTurn ==
    /\ [](\A p \in Procs :
             BudgetExhausted(p) =>
                 /\ StoredPointer(p) = response[p].ID
                 /\ response[p].ID = lastTurn[conversationID(p)]
                 /\ params[p].PreviousResponseID # response[p].ID
                 /\ params[p].Input = toolOutputs[p])
    /\ [][\A p \in Procs : NextRequestSendsStoredPointer(p)]_vars

\* The second request has submitted its initial turn with the pointer of
\* the turn that used up the budget of the first, a turn that asks for a
\* tool.
C28_Witness ==
    \E p \in Procs :
        /\ nreq = 2
        /\ pc[p] = "save"
        /\ params[p].PreviousResponseID.n = maxIterations + 1
        /\ params[p].Instructions

\* C29, as claimed: a turn with a tool call is always handled as a tool
\* turn: when Handle has returned and the turn received last holds a
\* tool call, its tool calls were executed and a follow-up that chains
\* onto it was submitted; text is returned only from a turn without tool
\* calls.
C29_ToolTurnAlwaysExecuted ==
    \A p \in Procs :
        Returned(p) =>
            LET toolCalls == extractToolCalls(response[p].Output)
            IN  /\ toolCalls # <<>> =>
                      /\ Len(toolOutputs[p]) = Len(toolCalls)
                      /\ params[p].PreviousResponseID = response[p].ID
                /\ ~result[p].IsError => toolCalls = <<>>

\* C29, amended: a turn with a tool call is handled as a tool turn (its
\* tool calls are executed and a follow-up is submitted) unless it is the
\* turn that uses up the budget, for which Handle returns the budget
\* error; in neither case is the text of the turn returned: text is
\* returned only from a turn without tool calls.
C29_ToolCallsBeforeText ==
    /\ [][\A p \in Procs :
             /\ (/\ pc[p] \in {"save", "update"} /\ pc'[p] # pc[p]
                 /\ extractToolCalls(response[p].Output) # <<>>) =>
                    IF i'[p] < maxIterations THEN pc'[p] = "exec"
                    ELSE BudgetExhausted(p)'
             /\ (pc[p] = "exec" /\ pc'[p] # "exec") => pc'[p] = "followup"
             /\ (pc[p] = "followup" /\ pc'[p] # "followup") =>
                    RemoteCall(p)]_vars
    /\ [](\A p \in Procs :
             (Returned(p) /\ ~result[p].IsError) =>
                 /\ extractToolCalls(response[p].Output) = <<>>
                 /\ result[p].Text = extractTextContent(response[p].Output))

\* The tool call of a turn that also holds text is executed.
C29_Witness ==
    \E p \in Procs :
        /\ pc[p] = "exec"
        /\ extractTextContent(response[p].Output) = "reading"

\* C30: a request whose task is absent or is not a string gets an error
\* result at once: no attached file is read, no remote call is issued
\* and the store is left as it is, also with continue=false.
C30_MissingTaskTouchesNothing ==
    /\ [][nreq' = nreq + 1 =>
             \E p \in Procs :
                 /\ pc[p] = "idle"
                 /\ IF request'[p].task.kind # "string"
                    THEN /\ Returned(p)'
                         /\ result'[p].IsError
                         /\ conv' = conv
                    ELSE pc'[p] = "continuation"]_vars
    /\ [](\A p \in Procs :
             request[p].task.kind # "string" =>
                 /\ reads[p] = <<>>
                 /\ ncalls[p] = 0
                 /\ pc[p] = "idle")

\* A request without task, with attached files and continue=false, has
\* returned while the store holds a pointer for its identifier.
C30_Witness ==
    \E p \in Procs :
        /\ Returned(p)
        /\ request[p].task = Absent
        /\ request[p].files = <<"gone.go", "main.go">>
        /\ request[p].continue = Bool(FALSE)
        /\ conversationID(p) \in DOMAIN conv

====
